---- MODULE Spec2Model ----
(***************************************************************************)
(* Weather-forecast Telegram bot: the pricing tiers (config/settings.py),  *)
(* the forecast composition pipeline (bot/weather.py) and the payment /    *)
(* location flow over the SQLite store (bot/handlers.py, bot/database.py). *)
(*                                                                         *)
(* Python dicts are records; a missing key is a name outside DOMAIN, and   *)
(* reading it is the KeyError the code's try/except blocks catch.  A       *)
(* timestamp dt counts whole hours of server-local time, which is all that *)
(* datetime.fromtimestamp(dt).date() and .hour observe.                    *)
(***************************************************************************)
EXTENDS Integers, Sequences, FiniteSets, TLC

VARIABLES
    weather_data,     \* argument of create_detailed_weather_messages
    stars_count,      \* argument of create_detailed_weather_messages
    messages,         \* its return value
    main_description, \* main_description of _create_single_day_message
    forecast_list,    \* argument of _group_forecasts_by_day
    daily_forecasts,  \* its return value
    day_periods,      \* _split_day_into_periods of every returned day
    tier,             \* return value of get_pricing_plan(stars_count)
    phase,            \* "input" before the call, then the name of what ran
    users,            \* table users: user_id -> row, None where there is no row
    payments,         \* table payments, in insertion (id) order
    usage_stats,      \* table usage_stats, in insertion order
    error_logs,       \* table error_logs, in insertion order
    update,           \* the update handled last: its kind and its user
    fetches,          \* provider endpoints requested while handling it
    outbox,           \* Bot API calls made while handling it
    result,           \* what process_update returned for it
    now,              \* datetime.now(), one tick per handled update
    args,             \* arguments of one helper of the additional block
    value,            \* what the helper returned
    procs,            \* requests writing to the store side by side
    lock              \* the request holding SQLite's write lock, 0 for none

\* what the bot leaves alone while it serves updates
\* the helpers' inputs and the side-by-side writers
labVars == <<args, value, procs, lock>>

idleVars == <<main_description, forecast_list, daily_forecasts,
              day_periods, tier, phase, labVars>>

pureVars == <<weather_data, stars_count, messages, idleVars>>

sysVars == <<users, payments, usage_stats, error_logs, update, fetches, outbox,
             result, now>>

vars == <<pureVars, sysVars, labVars>>

-----------------------------------------------------------------------------
(* Bounds of the model *)

\* star counts offered to the composer are 0..MaxStars
MaxStars == 6
\* leading days of a composed payload whose samples are drawn freely
MaxFree == 1
\* further plain days appended to a composed payload
MaxTail == 6
\* longest sample list handed to the bucketer alone
MaxLen == 3
\* calendar dates 0..MaxDate occur in the bucketer's inputs
MaxDate == 1
\* webhook updates handled in one run
MaxUpdates == 3
\* a failing sendMessage call is among the first MaxFailIndex of its update
MaxFailIndex == 2
\* webhook updates handled in one run when every kind of update is offered
MaxDispatch == 2
\* longest list of day buckets handed to the per-day renderer alone
MaxDays == 3
\* the moon phase is computed for the dates of 2024 and MaxMoonYears more years
MaxMoonYears == 1
\* requests writing to the store side by side
MaxWriters == 2

-----------------------------------------------------------------------------
(* Python values *)

None == [none |-> TRUE]

HoursPerDay == 24

Min(a, b) == IF a <= b THEN a ELSE b

\* s[:n] for n >= 0
Slice(s, n) == [i \in 1..Min(n, Len(s)) |-> s[i]]

\* d.get(k)
Get(d, k) == IF k \in DOMAIN d THEN d[k] ELSE None

\* datetime.fromtimestamp(dt).date()
DateOf(dt) == dt \div HoursPerDay

\* datetime.fromtimestamp(dt).hour
HourOf(dt) == dt % HoursPerDay

-----------------------------------------------------------------------------
(* config/settings.py *)

PRICING_PLANS ==
    <<[days |-> 2, name |-> "1 star"],
      [days |-> 3, name |-> "2 stars"],
      [days |-> 4, name |-> "3 stars"],
      [days |-> 5, name |-> "4 stars"],
      [days |-> 6, name |-> "5 stars"]>>

DAY_NAMES ==
    <<"SOGODNI", "ZAVTRA", "PISLYAZAVTRA", "CHEREZ 3 DNI", "CHEREZ 4 DNI",
      "CHEREZ 5 DNIV">>

CALL_TO_ACTIONS == <<"cta0", "cta1", "cta2", "cta3", "cta4", "cta5">>

AQI_LABELS == <<"Dobra", "Zadovilna", "Pomirna", "Pogana", "Duzhe pogana">>

get_pricing_plan_default(stars) ==
    IF stars \in DOMAIN PRICING_PLANS THEN PRICING_PLANS[stars]
    ELSE PRICING_PLANS[1]

get_pricing_plan(stars) ==
    IF stars \in DOMAIN PRICING_PLANS THEN PRICING_PLANS[stars] ELSE None

-----------------------------------------------------------------------------
(* bot/weather.py: the day / period bucketer *)

\* current_day = None before the first sample
NoDay == -1

\* forecast['dt'] raises KeyError for some sample of the list
group_raises(list) == \E i \in DOMAIN list : "dt" \notin DOMAIN list[i]

Flush(daily, day) == IF day # <<>> THEN Append(daily, day) ELSE daily

RECURSIVE group_loop_merge_all(_, _, _, _)
group_loop_merge_all(rest, daily, current_day, day) ==
    IF rest = <<>> THEN Flush(daily, day)
    ELSE group_loop_merge_all(Tail(rest), daily, current_day,
                              Append(day, Head(rest)))

\* the for loop of _group_forecasts_by_day, one sample per step
RECURSIVE group_loop(_, _, _, _)
group_loop(rest, daily, current_day, day) ==
    IF rest = <<>> THEN Flush(daily, day)
    ELSE LET forecast == Head(rest)
             forecast_date == DateOf(forecast.dt)
         IN  IF current_day # forecast_date
             THEN group_loop(Tail(rest), Flush(daily, day), forecast_date,
                             <<forecast>>)
             ELSE group_loop(Tail(rest), daily, current_day,
                             Append(day, forecast))

\* defined when ~group_raises(list)
_group_forecasts_by_day(list) == group_loop(list, <<>>, NoDay, <<>>)

PeriodKeys == <<"night", "morning", "day", "evening">>

\* the if / elif chain on the sample's hour
period_of(hour) ==
    IF 0 <= hour /\ hour < 6 THEN "night"
    ELSE IF 6 <= hour /\ hour < 12 THEN "morning"
    ELSE IF 12 <= hour /\ hour < 18 THEN "day"
    ELSE "evening"

keep_last(periods, key, forecast) == [periods EXCEPT ![key] = forecast]

\* if not periods[key]: periods[key] = forecast
keep_first(periods, key, forecast) ==
    IF periods[key] = None THEN [periods EXCEPT ![key] = forecast]
    ELSE periods

RECURSIVE split_loop(_, _)
split_loop(rest, periods) ==
    IF rest = <<>> THEN periods
    ELSE LET forecast == Head(rest)
         IN  split_loop(Tail(rest),
                 keep_first(periods, period_of(HourOf(forecast.dt)), forecast))

_split_day_into_periods(day) ==
    split_loop(day, [k \in {PeriodKeys[i] : i \in DOMAIN PeriodKeys} |-> None])

-----------------------------------------------------------------------------
(* bot/weather.py: the message renderer *)

\* the populated windows, in the order of the periods dict
Populated(periods) ==
    SelectSeq(PeriodKeys, LAMBDA k : periods[k] # None)

\* air_quality['list'][0]['main']['aqi'] raises
aqi_raises(air_quality) ==
    air_quality # None /\ "aqi" \notin DOMAIN air_quality

AqiLabel(air_quality) ==
    IF air_quality = None THEN "none"
    ELSE IF air_quality.aqi \in DOMAIN AQI_LABELS
         THEN AQI_LABELS[air_quality.aqi]
         ELSE "Nevidoma"

\* period_data['main'] / ['weather'] raises for a populated window
period_raises(periods) ==
    \E k \in DOMAIN periods :
        /\ periods[k] # None
        /\ ~ ({"temp", "description"} \subseteq DOMAIN periods[k])

single_day_message_no_placeholder(day_name, periods, air_quality, day_index) ==
    IF period_raises(periods) \/ Populated(periods) = <<>>
          \/ aqi_raises(air_quality)
    THEN [kind |-> "day_error", day_name |-> day_name]
    ELSE [kind |-> "day", day_name |-> day_name, periods |-> periods,
          air |-> AqiLabel(air_quality),
          cta |-> CALL_TO_ACTIONS[(day_index % Len(CALL_TO_ACTIONS)) + 1]]

\* every exception of the body is caught and rendered as the error block
_create_single_day_message(day_name, periods, air_quality, day_index) ==
    IF period_raises(periods)
    THEN [kind |-> "day_error", day_name |-> day_name]
    ELSE IF Populated(periods) = <<>>
    THEN [kind |-> "day_nodata", day_name |-> day_name]
    ELSE IF aqi_raises(air_quality)
    THEN [kind |-> "day_error", day_name |-> day_name]
    ELSE [kind |-> "day", day_name |-> day_name, periods |-> periods,
          air |-> AqiLabel(air_quality),
          cta |-> CALL_TO_ACTIONS[(day_index % Len(CALL_TO_ACTIONS)) + 1]]

\* descriptions: one entry per populated window, in the order of the dict
descriptions_of(periods) ==
    [i \in DOMAIN Populated(periods) |-> periods[Populated(periods)[i]].description]

\* descriptions.count(d)
count_of(descriptions, d) ==
    Cardinality({i \in DOMAIN descriptions : descriptions[i] = d})

\* str.title() on the descriptions the inputs use
Title(d) ==
    IF d = "sunny" THEN "Sunny"
    ELSE IF d = "cloudy" THEN "Cloudy"
    ELSE IF d = "rain" THEN "Rain"
    ELSE "Clear"

\* max(set(descriptions), key=descriptions.count).title(): max returns the
\* first element of maximal count in the iteration order of the set, and a
\* set of str iterates in the order of the strings' randomized hashes, so
\* any description of maximal count may come out
main_description_choices(periods) ==
    LET descriptions == descriptions_of(periods)
    IN  {Title(descriptions[i]) : i \in
            {i \in DOMAIN descriptions :
                \A j \in DOMAIN descriptions :
                    count_of(descriptions, descriptions[j])
                        <= count_of(descriptions, descriptions[i])}}

\* forecast['list'] or a sample's forecast['dt'] raises
daily_raises(forecast) ==
    \/ "list" \notin DOMAIN forecast
    \/ group_raises(forecast.list)

RECURSIVE day_loop_reordered(_, _, _, _, _)
day_loop_reordered(day_index, day_names, daily, air_quality, msgs) ==
    IF day_index >= Len(day_names) THEN msgs
    ELSE day_loop_reordered(day_index + 1, day_names, daily, air_quality,
             IF day_index < Len(daily)
             THEN Append(msgs,
                      _create_single_day_message(
                          day_names[day_index + 1],
                          _split_day_into_periods(daily[Len(daily) - day_index]),
                          air_quality, day_index))
             ELSE msgs)

\* for day_index, day_name in enumerate(day_names)
RECURSIVE day_loop(_, _, _, _, _)
day_loop(day_index, day_names, daily, air_quality, msgs) ==
    IF day_index >= Len(day_names) THEN msgs
    ELSE day_loop(day_index + 1, day_names, daily, air_quality,
             IF day_index < Len(daily)
             THEN Append(msgs,
                      _create_single_day_message(
                          day_names[day_index + 1],
                          _split_day_into_periods(daily[day_index + 1]),
                          air_quality, day_index))
             ELSE msgs)

daily_forecasts_one_short(forecast, air_quality, days_to_show) ==
    IF daily_raises(forecast) THEN <<>>
    ELSE day_loop(0, Slice(DAY_NAMES, days_to_show - 1),
                  _group_forecasts_by_day(forecast.list), air_quality, <<>>)

_create_detailed_daily_forecasts(forecast, air_quality, days_to_show) ==
    IF daily_raises(forecast) THEN <<>>
    ELSE day_loop(0, Slice(DAY_NAMES, days_to_show),
                  _group_forecasts_by_day(forecast.list), air_quality, <<>>)

\* a KeyError anywhere in the body of _create_current_weather_message
header_raises(current, location, air_quality) ==
    \/ ~ ({"city", "country"} \subseteq DOMAIN location)
    \/ ~ ({"main", "wind", "sys"} \subseteq DOMAIN current)
    \/ /\ air_quality # None
       /\ ~ ({"aqi", "pm2_5"} \subseteq DOMAIN air_quality)

_create_current_weather_message(current, location, air_quality) ==
    IF header_raises(current, location, air_quality)
    THEN [kind |-> "header_error"]
    ELSE [kind |-> "header", city |-> location.city,
          air |-> AqiLabel(air_quality)]

\* a KeyError in _create_additional_info_message or in
\* _generate_weather_recommendations
additional_raises(wd) ==
    \/ ~ ({"main", "wind"} \subseteq DOMAIN wd.current)
    \/ aqi_raises(Get(wd, "air_quality"))

_create_additional_info_message(wd) ==
    IF additional_raises(wd) THEN None
    ELSE [kind |-> "additional", air |-> AqiLabel(Get(wd, "air_quality"))]

_create_comprehensive_final_message(city_name, days_count, stars) ==
    [kind |-> "final", city |-> city_name, days_count |-> days_count,
     stars_count |-> stars]

\* an exception that reaches the outer except of
\* create_detailed_weather_messages
compose_raises(wd) ==
    \/ ~ ({"current", "forecast", "location_info"} \subseteq DOMAIN wd)
    \/ "city" \notin DOMAIN wd.location_info

\* if stars_count >= 3: ... if additional_info: messages.append(...)
additional_blocks(wd, stars) ==
    IF stars >= 3
    THEN LET additional_info == _create_additional_info_message(wd)
         IN  IF additional_info # None THEN <<additional_info>> ELSE <<>>
    ELSE <<>>

compose_footer_first(wd, stars) ==
    IF compose_raises(wd) THEN <<>>
    ELSE LET air_quality == Get(wd, "air_quality")
             plan == get_pricing_plan(stars)
             days_to_show == IF plan # None THEN plan.days ELSE 2
         IN  <<_create_comprehensive_final_message(
                   wd.location_info.city, days_to_show, stars)>>
             \o <<_create_current_weather_message(
                   wd.current, wd.location_info, air_quality)>>
             \o _create_detailed_daily_forecasts(
                   wd.forecast, air_quality, days_to_show)
             \o additional_blocks(wd, stars)

create_detailed_weather_messages(wd, stars) ==
    IF compose_raises(wd) THEN <<>>
    ELSE LET air_quality == Get(wd, "air_quality")
             plan == get_pricing_plan(stars)
             days_to_show == IF plan # None THEN plan.days ELSE 2
         IN  <<_create_current_weather_message(
                   wd.current, wd.location_info, air_quality)>>
             \o _create_detailed_daily_forecasts(
                   wd.forecast, air_quality, days_to_show)
             \o additional_blocks(wd, stars)
             \o <<_create_comprehensive_final_message(
                   wd.location_info.city, days_to_show, stars)>>

-----------------------------------------------------------------------------
(* bot/weather.py: the fetch *)

\* forecast_5day.get('city', {}).get(key, 'Unknown')
CityField(forecast_5day, key) ==
    IF "city" \in DOMAIN forecast_5day /\ key \in DOMAIN forecast_5day.city
    THEN forecast_5day.city[key]
    ELSE "Unknown"

forecast_without_current(current_weather, forecast_5day, air_quality, lat, lon) ==
    IF current_weather = None /\ forecast_5day = None THEN None
    ELSE [current |-> current_weather,
          forecast |-> forecast_5day,
          air_quality |-> air_quality,
          location_info |-> [lat |-> lat, lon |-> lon,
                             city |-> "Unknown", country |-> "Unknown"]]

get_comprehensive_forecast(current_weather, forecast_5day, air_quality, lat, lon) ==
    IF current_weather = None \/ forecast_5day = None THEN None
    ELSE [current |-> current_weather,
          forecast |-> forecast_5day,
          air_quality |-> air_quality,
          location_info |-> [lat |-> lat, lon |-> lon,
                             city |-> CityField(forecast_5day, "name"),
                             country |-> CityField(forecast_5day, "country")]]

-----------------------------------------------------------------------------
(* bot/weather.py: the derived quantities of the additional block and the  *)
(* moon phase.  Temperatures are whole degrees and results are thousandths *)
(* of a degree; the moon's phase fraction is in millionths.                *)

\* math.log(humidity / 100.0) in thousandths, for humidity 1..100
LnPercent ==
    <<
      -4605, -3912, -3507, -3219, -2996, -2813, -2659, -2526, -2408, -2303,
      -2207, -2120, -2040, -1966, -1897, -1833, -1772, -1715, -1661, -1609,
      -1561, -1514, -1470, -1427, -1386, -1347, -1309, -1273, -1238, -1204,
      -1171, -1139, -1109, -1079, -1050, -1022, -994, -968, -942, -916,
      -892, -868, -844, -821, -799, -777, -755, -734, -713, -693,
      -673, -654, -635, -616, -598, -580, -562, -545, -528, -511,
      -494, -478, -462, -446, -431, -416, -400, -386, -371, -357,
      -342, -329, -315, -301, -288, -274, -261, -248, -236, -223,
      -211, -198, -186, -174, -163, -151, -139, -128, -117, -105,
      -94, -83, -73, -62, -51, -41, -30, -20, -10, 0>>

\* _calculate_dew_point: math.log raises for humidity 0 and the except
\* clause returns temp - 10
_calculate_dew_point(temp, humidity) ==
    IF humidity <= 0 THEN 1000 * (temp - 10)
    ELSE LET alpha == ((172700 * temp) \div (2377 + 10 * temp))
                        + LnPercent[humidity]
         IN  (237700 * alpha) \div (17270 - alpha)

heat_index_unclamped(temp, humidity) ==
    1000 * temp + 5 * (temp - 20) * humidity

\* _calculate_heat_index
_calculate_heat_index(temp, humidity) ==
    IF temp < 27 THEN 1000 * temp
    ELSE LET hi == 1000 * temp + 5 * (temp - 20) * humidity
         IN  IF hi > 1000 * temp THEN hi ELSE 1000 * temp

recommendations_every_check(current, air_quality) ==
    LET temp == current.main.temp
        lines ==
            (IF temp < 0 THEN <<"frostbite">> ELSE <<>>)
            \o (IF temp < 10 THEN <<"warm_clothes">> ELSE <<>>)
            \o (IF temp > 30 THEN <<"hot">> ELSE <<>>)
            \o (IF current.wind.speed > 10 THEN <<"strong_wind">> ELSE <<>>)
    IN  IF lines = <<>> THEN <<"favourable">> ELSE lines

\* _generate_weather_recommendations: the lines of the returned text
_generate_weather_recommendations(current, air_quality) ==
    LET temp == current.main.temp
        humidity == current.main.humidity
        wind_speed == current.wind.speed
        recommendations ==
            (IF temp < 0 THEN <<"frostbite">>
             ELSE IF temp < 10 THEN <<"warm_clothes">>
             ELSE IF temp > 30 THEN <<"hot">>
             ELSE <<>>)
            \o (IF humidity > 80 THEN <<"high_humidity">>
                ELSE IF humidity < 30 THEN <<"low_humidity">>
                ELSE <<>>)
            \o (IF wind_speed > 10 THEN <<"strong_wind">> ELSE <<>>)
            \o (IF air_quality = None THEN <<>>
                ELSE IF air_quality.aqi >= 4 THEN <<"wear_mask">>
                ELSE IF air_quality.aqi >= 3 THEN <<"limit_activity">>
                ELSE <<>>)
    IN  IF recommendations # <<>> THEN recommendations ELSE <<"favourable">>

\* the fraction age - math.floor(age) of get_moon_phase, in millionths.  With
\* jd in hundredths, age is (15336 * jd + 180000) millionths; 15336 and 10^6
\* share the factor 8, and the remainder is taken before each product.
moon_fraction(year, month, day) ==
    LET jd == 36525 * (year - 1900) + 100 * ((306 * month) \div 10)
                + 100 * day - 69403909
    IN  (8 * (((jd % 125000) * 1917) % 125000) + 180000) % 1000000

moon_phase_without_wrap(year, month, day) ==
    LET fraction == moon_fraction(year, month, day)
    IN  IF fraction < 62500 THEN [phase |-> "new_moon"]
        ELSE IF fraction < 187500 THEN [phase |-> "waxing_crescent"]
        ELSE IF fraction < 312500 THEN [phase |-> "first_quarter"]
        ELSE IF fraction < 437500 THEN [phase |-> "waxing_gibbous"]
        ELSE IF fraction < 562500 THEN [phase |-> "full_moon"]
        ELSE IF fraction < 687500 THEN [phase |-> "waning_gibbous"]
        ELSE IF fraction < 812500 THEN [phase |-> "last_quarter"]
        ELSE [phase |-> "waning_crescent"]

\* get_moon_phase on the date datetime.now() returns
get_moon_phase(year, month, day) ==
    LET fraction == moon_fraction(year, month, day)
    IN  IF fraction < 62500 \/ fraction >= 937500 THEN [phase |-> "new_moon"]
        ELSE IF fraction < 187500 THEN [phase |-> "waxing_crescent"]
        ELSE IF fraction < 312500 THEN [phase |-> "first_quarter"]
        ELSE IF fraction < 437500 THEN [phase |-> "waxing_gibbous"]
        ELSE IF fraction < 562500 THEN [phase |-> "full_moon"]
        ELSE IF fraction < 687500 THEN [phase |-> "waning_gibbous"]
        ELSE IF fraction < 812500 THEN [phase |-> "last_quarter"]
        ELSE [phase |-> "waning_crescent"]

-----------------------------------------------------------------------------
(* bot/database.py *)

\* the rows log_user_action and log_error insert (user, what)
StatRow(user_id, action) == [user_id |-> user_id, action |-> action]

ErrorRow(user_id, error_type) == [user_id |-> user_id, error_type |-> error_type]

\* INSERT ... or UPDATE ... of save_user
save_user(table, user) ==
    IF table[user.id] # None
    THEN [table EXCEPT ![user.id] =
            [@ EXCEPT !.first_name = user.first_name]]
    ELSE [table EXCEPT ![user.id] =
            [first_name |-> user.first_name, last_location |-> None,
             total_orders |-> 0, total_stars_spent |-> 0]]

\* UPDATE users SET last_location_lat = ?, ... WHERE user_id = ?
update_location(table, user_id, location) ==
    IF table[user_id] # None
    THEN [table EXCEPT ![user_id] =
            [@ EXCEPT !.last_location = location]]
    ELSE table

\* the INSERT of save_payment
payment_row(table, user_id, stars_amount) ==
    [id |-> Len(table) + 1, user_id |-> user_id, stars_amount |-> stars_amount,
     payment_date |-> now, weather_delivered |-> FALSE]

\* the UPDATE users SET total_orders = total_orders + 1, ... of save_payment
add_order(table, user_id, stars_amount) ==
    IF table[user_id] # None
    THEN [table EXCEPT ![user_id] =
            [@ EXCEPT !.total_orders = @ + 1,
                      !.total_stars_spent = @ + stars_amount]]
    ELSE table

last_payment_of_anyone(table, user_id) ==
    IF table = <<>> THEN {None}
    ELSE {[stars_amount |-> table[Len(table)].stars_amount]}

first_payment(table, user_id) ==
    LET mine == {i \in DOMAIN table : table[i].user_id = user_id}
    IN  IF mine = {} THEN {None}
        ELSE {[stars_amount |-> table[i].stars_amount] :
                i \in {i \in mine :
                         \A j \in mine : table[i].payment_date <= table[j].payment_date}}

\* SELECT stars_amount FROM payments WHERE user_id = ?
\* ORDER BY payment_date DESC LIMIT 1: the rows fetchone() may return
get_last_payment(table, user_id) ==
    LET mine == {i \in DOMAIN table : table[i].user_id = user_id}
    IN  IF mine = {} THEN {None}
        ELSE {[stars_amount |-> table[i].stars_amount] :
                i \in {i \in mine :
                         \A j \in mine : table[j].payment_date <= table[i].payment_date}}

-----------------------------------------------------------------------------
(* Inputs *)

StarInputs == -1..MaxStars

ForecastSample(dt, description) ==
    [dt |-> dt, temp |-> 20, description |-> description]

\* what one calendar day of a payload may hold: one sample; three samples,
\* two of them in the night window; a sample without 'main'; a sample
\* without 'dt'
DayPatterns(d) ==
    LET h == d * HoursPerDay
    IN  << <<ForecastSample(h + 9, "clear")>>,
           <<ForecastSample(h + 3, "rain"), ForecastSample(h + 4, "clear"),
             ForecastSample(h + 21, "clear")>>,
           <<[dt |-> h + 9, description |-> "clear"]>>,
           <<[temp |-> 20, description |-> "clear"]>> >>

PlainDay(d) == <<ForecastSample(d * HoursPerDay + 12, "clear")>>

RECURSIVE Concat(_)
Concat(ss) == IF ss = <<>> THEN <<>> ELSE Head(ss) \o Concat(Tail(ss))

\* chronological payload lists: up to MaxFree free days, then plain days
ForecastLists ==
    UNION { UNION { { Concat([i \in 1..k |-> DayPatterns(i - 1)[c[i]]])
                      \o Concat([j \in 1..t |-> PlainDay(k + j - 1)])
                      : t \in 0..MaxTail }
                    : c \in [1..k -> DOMAIN DayPatterns(0)] }
            : k \in 0..MaxFree }

ForecastInputs ==
    {[list |-> l, city |-> "Kyiv"] : l \in ForecastLists}
        \cup {[city |-> "Kyiv"]}

FullCurrent ==
    [main |-> [temp |-> 20, humidity |-> 50], wind |-> [speed |-> 3],
     sys |-> [sunrise |-> 6, sunset |-> 18]]

CurrentInputs ==
    {FullCurrent,
     [main |-> FullCurrent.main, wind |-> FullCurrent.wind],
     [wind |-> FullCurrent.wind, sys |-> FullCurrent.sys]}

AirInputs == {None, [aqi |-> 2, pm2_5 |-> 7], [aqi |-> 4], [cod |-> 200]}

FullLocation == [city |-> "Kyiv", country |-> "UA"]

LocationInputs == {FullLocation, [country |-> "UA"]}

Without(d, k) == [x \in DOMAIN d \ {k} |-> d[x]]

WellFormedPayload(l) ==
    [current |-> FullCurrent, forecast |-> [list |-> l, city |-> "Kyiv"],
     air_quality |-> [aqi |-> 2, pm2_5 |-> 7], location_info |-> FullLocation]

WeatherInputs ==
    {[current |-> c, forecast |-> f, air_quality |-> a, location_info |-> l] :
        c \in CurrentInputs, f \in ForecastInputs, a \in AirInputs,
        l \in LocationInputs}
    \cup {Without(WellFormedPayload(PlainDay(0)), k) :
            k \in {"current", "forecast", "air_quality", "location_info"}}

HourInputs == {0, 5, 6, 11, 12, 17, 18, 23}

BucketSamples ==
    {ForecastSample(d * HoursPerDay + h, "clear") :
        d \in 0..MaxDate, h \in HourInputs}

BucketInputs == UNION {[1..n -> BucketSamples] : n \in 0..MaxLen}

\* day buckets for the per-day renderer: no sample; sunny, sunny, cloudy;
\* sunny and cloudy once each; cloudy, then sunny twice; a sample without
\* 'main'
DayBucketInputs(d) ==
    LET h == d * HoursPerDay
    IN  {<<>>,
         <<ForecastSample(h + 3, "sunny"), ForecastSample(h + 9, "sunny"),
           ForecastSample(h + 15, "cloudy")>>,
         <<ForecastSample(h + 9, "sunny"), ForecastSample(h + 15, "cloudy")>>,
         <<ForecastSample(h + 9, "cloudy"), ForecastSample(h + 15, "sunny"),
           ForecastSample(h + 21, "sunny")>>,
         <<[dt |-> h + 9, description |-> "sunny"]>>}

DailyInputs ==
    UNION {{daily \in [1..n -> UNION {DayBucketInputs(d) : d \in 0..(n - 1)}] :
               \A k \in 1..n : daily[k] \in DayBucketInputs(k - 1)}
           : n \in 1..MaxDays}

UserIds == {1, 2}

\* the from field of a message: user 1 is Ann, every other user is Bob
UserInputs ==
    {[id |-> u, first_name |-> IF u = 1 THEN "Ann" ELSE "Bob"] : u \in UserIds}

TextInputs == {"/start", "/weather", "/help", "hello"}

LocationMessages == {[lat |-> 50, lon |-> 30]}

\* a low tier, a tier with the additional block, and an undefined tier
PaymentStars == {1, 3, MaxStars}

\* button data: a tier, a tier outside the table, a suffix int() rejects, the
\* two buttons under a forecast, and data of no button
CallbackInputs ==
    {"weather_stars_3", "weather_stars_9", "weather_stars_x", "new_forecast",
     "change_location", "other"}

\* a pre-checkout query the validation approves: an int total_amount is
\* [int |-> n], a string payload is what startswith('weather_') says of it
PreCheckout(n) ==
    [user_id |-> 1, currency |-> [kind |-> "XTR"], total_amount |-> [int |-> n],
     invoice_payload |-> [weather_prefix |-> TRUE]]

\* pre-checkout queries: approvable ones, and ones with another currency, an
\* amount out of range, not an int or absent, a payload of another prefix,
\* null or absent
PreCheckoutInputs ==
    {PreCheckout(n) : n \in {1, 3, 5}}
    \cup {[PreCheckout(n) EXCEPT !.currency = [kind |-> "USD"]] : n \in {0, 3}}
    \cup {[PreCheckout(3) EXCEPT !.total_amount = a] :
            a \in {[int |-> 0], [int |-> MaxStars], [float |-> 3]}}
    \cup {Without(PreCheckout(3), "total_amount")}
    \cup {[PreCheckout(3) EXCEPT !.invoice_payload = l] :
            l \in {[weather_prefix |-> FALSE], None}}
    \cup {Without(PreCheckout(3), "invoice_payload")}

\* what the three provider endpoints may answer; None is a failed request
CurrentResponses == {None, FullCurrent}

ForecastResponses ==
    {None,
     [list |-> Concat([d \in 1..2 |-> PlainDay(d - 1)]),
      city |-> [name |-> "Kyiv", country |-> "UA"]],
     [list |-> Concat([d \in 1..6 |-> DayPatterns(d - 1)[2]])]}

AirResponses == {None, [aqi |-> 4, pm2_5 |-> 7]}

\* the answers to the four requests of one fetch: the second request for the
\* current weather is answered like the first, or it alone fails, or it
\* alone succeeds
FetchResponses ==
    {[current |-> c, forecast |-> f, air |-> a, uv |-> c] :
        c \in CurrentResponses, f \in ForecastResponses, a \in AirResponses}
    \cup {[current |-> c, forecast |-> f, air |-> None,
           uv |-> IF c = None THEN FullCurrent ELSE None] :
            c \in CurrentResponses,
            f \in {f \in ForecastResponses : f # None /\ "city" \in DOMAIN f}}

\* no send fails, or the k-th send of the update does
FailInputs == {{}} \cup {{k} : k \in 1..MaxFailIndex}

\* the same for an update that sends one message
OneSendFails == {f \in FailInputs : f \subseteq {1}}

\* temperature and humidity of the current weather: temperatures on both
\* sides of 27 degrees, every humidity in percent
AirStateInputs ==
    {[temp |-> t, humidity |-> h] :
        t \in {-5, 0, 10, 20, 26, 27, 28, 30, 35}, h \in 0..100}

\* current weather and air quality on both sides of every threshold of the
\* recommendations
ConditionInputs ==
    {[current |-> [main |-> [temp |-> t, humidity |-> h], wind |-> [speed |-> w]],
      air_quality |-> a] :
        t \in {-5, 0, 5, 10, 20, 30, 31}, h \in {20, 30, 50, 80, 81},
        w \in {3, 10, 11},
        a \in {None} \cup {[aqi |-> n, pm2_5 |-> 7] : n \in 1..5}}

DaysIn(year, month) ==
    IF month = 2
    THEN IF year % 4 = 0 /\ (year % 100 # 0 \/ year % 400 = 0) THEN 29 ELSE 28
    ELSE IF month \in {4, 6, 9, 11} THEN 30 ELSE 31

\* the calendar dates datetime.now() may return, from 2024 on
DateInputs ==
    {date \in [year : 2024..(2024 + MaxMoonYears), month : 1..12, day : 1..31] :
        date.day <= DaysIn(date.year, date.month)}

-----------------------------------------------------------------------------
(* bot/handlers.py *)

Text(kind) == [kind |-> kind]

\* one Bot API call: the k-th of this update fails iff k \in fail
Sent(box, msg, fail) == Append(box, [msg |-> msg, ok |-> (Len(box) + 1) \notin fail])

RECURSIVE SendAll_stop_at_failure(_, _, _)
SendAll_stop_at_failure(box, msgs, fail) ==
    IF msgs = <<>> \/ (box # <<>> /\ ~ box[Len(box)].ok) THEN box
    ELSE SendAll_stop_at_failure(Sent(box, Head(msgs), fail), Tail(msgs), fail)

\* for i, msg in enumerate(messages): send_message(chat_id, msg)
RECURSIVE SendAll(_, _, _)
SendAll(box, msgs, fail) ==
    IF msgs = <<>> THEN box
    ELSE SendAll(Sent(box, Head(msgs), fail), Tail(msgs), fail)

LastOk(box) == box[Len(box)].ok

Reply(text) ==
    IF text = "/start" THEN Text("start")
    ELSE IF text = "/weather" THEN Text("weather_menu")
    ELSE IF text = "/help" THEN Text("help")
    ELSE Text("use_weather_command")

\* the update being handled
Serving(kind, user_id) ==
    /\ now' = now + 1
    /\ update' = [kind |-> kind, user_id |-> user_id]

ComposedRegardless ==
    /\ weather_data' = WellFormedPayload(PlainDay(0))
    /\ stars_count' = 1
    /\ messages' = create_detailed_weather_messages(weather_data', stars_count')

\* no call of create_detailed_weather_messages while handling it
NotComposed ==
    /\ weather_data' = None
    /\ stars_count' = 0
    /\ messages' = <<>>

\* handle_message for a text message
HandleText(user, text, fail) ==
    /\ Serving("text", user.id)
    /\ users' = save_user(users, user)
    /\ usage_stats' = Append(usage_stats, StatRow(user.id, "message_received"))
    /\ outbox' = Sent(<<>>, Reply(text), fail)
    /\ result' = LastOk(outbox')
    /\ fetches' = <<>>
    /\ NotComposed
    /\ UNCHANGED <<payments, error_logs>>

\* int(data.split('_')[-1]) of the callback data offered
CallbackStars == [weather_stars_3 |-> 3, weather_stars_9 |-> 9]

\* handle_callback_query
HandleCallbackQuery(user_id, data, fail) ==
    /\ Serving("callback_query", user_id)
    /\ usage_stats' = Append(usage_stats, StatRow(user_id, "button_clicked"))
    /\ fetches' = <<>>
    /\ NotComposed
    /\ UNCHANGED <<users, payments, error_logs>>
    /\ IF data \in DOMAIN CallbackStars
       THEN LET plan == get_pricing_plan(CallbackStars[data])
            IN  IF plan = None
                THEN outbox' = <<>> /\ result' = FALSE
                ELSE /\ outbox' = Sent(<<>>, [kind |-> "invoice",
                                              days |-> plan.days,
                                              stars |-> CallbackStars[data]], fail)
                     /\ result' = LastOk(outbox')
       ELSE IF data = "weather_stars_x"
       THEN outbox' = <<>> /\ result' = FALSE
       ELSE IF data = "new_forecast"
       THEN /\ outbox' = Sent(<<>>, Text("weather_menu"), fail)
            /\ result' = LastOk(outbox')
       ELSE IF data = "change_location"
       THEN /\ outbox' = Sent(<<>>, Text("send_location"), fail)
            /\ result' = LastOk(outbox')
       ELSE outbox' = <<>> /\ result' = TRUE

validate_currency_only(query) ==
    IF Get(query, "currency") # [kind |-> "XTR"]
    THEN [is_valid |-> FALSE, error_msg |-> "Invalid currency"]
    ELSE [is_valid |-> TRUE, error_msg |-> "none"]

\* (is_valid, error_msg) of validate_pre_checkout; payload.startswith raises
\* for a null payload and the except clause answers
validate_pre_checkout(query) ==
    LET total_amount == Get(query, "total_amount")
        payload == IF "invoice_payload" \in DOMAIN query
                   THEN query.invoice_payload
                   ELSE [weather_prefix |-> FALSE]
    IN  IF Get(query, "currency") # [kind |-> "XTR"]
        THEN [is_valid |-> FALSE, error_msg |-> "Invalid currency"]
        ELSE IF "int" \notin DOMAIN total_amount
                \/ total_amount.int < 1 \/ total_amount.int > 5
        THEN [is_valid |-> FALSE, error_msg |-> "Invalid amount"]
        ELSE IF payload = None
        THEN [is_valid |-> FALSE, error_msg |-> "Validation error"]
        ELSE IF ~ payload.weather_prefix
        THEN [is_valid |-> FALSE, error_msg |-> "Invalid order"]
        ELSE [is_valid |-> TRUE, error_msg |-> "none"]

\* handle_pre_checkout
HandlePreCheckout(query, fail) ==
    /\ now' = now + 1
    /\ update' = [kind |-> "pre_checkout_query", user_id |-> query.user_id,
                  query |-> query]
    /\ LET answer == validate_pre_checkout(query)
       IN  outbox' = Sent(<<>>, [kind |-> "pre_checkout_answer",
                                 ok |-> answer.is_valid,
                                 error_message |-> answer.error_msg], fail)
    /\ result' = LastOk(outbox')
    /\ fetches' = <<>>
    /\ NotComposed
    /\ UNCHANGED <<users, payments, usage_stats, error_logs>>

\* handle_successful_payment; plan['days'] raises for an unknown tier and
\* process_update answers False
HandleSuccessfulPayment(user_id, stars, fail) ==
    /\ now' = now + 1
    /\ update' = [kind |-> "successful_payment", user_id |-> user_id,
                  total_amount |-> stars]
    /\ LET plan == get_pricing_plan(stars)
       IN  IF plan = None
           THEN /\ result' = FALSE
                /\ outbox' = <<>>
                /\ UNCHANGED <<users, payments, usage_stats>>
           ELSE /\ usage_stats' =
                      Append(usage_stats, StatRow(user_id, "payment_successful"))
                /\ payments' = Append(payments, payment_row(payments, user_id, stars))
                /\ users' = add_order(users, user_id, stars)
                /\ outbox' = Sent(<<>>, [kind |-> "payment_success",
                                         stars |-> stars, days |-> plan.days], fail)
                /\ result' = LastOk(outbox')
    /\ fetches' = <<>>
    /\ NotComposed
    /\ UNCHANGED error_logs

deliver_ready_on_success(processing, msgs, fail) ==
    LET blocks == SendAll(processing, msgs, fail)
    IN  IF \A i \in 2..Len(blocks) : blocks[i].ok
        THEN Sent(blocks, Text("forecast_ready"), fail)
        ELSE blocks

\* the send loop over the composed blocks, then the 'forecast ready' message
deliver(processing, msgs, fail) ==
    Sent(SendAll(processing, msgs, fail), Text("forecast_ready"), fail)

Request(endpoint, response) ==
    [endpoint |-> endpoint, answered |-> response # None]

\* the requests of get_comprehensive_forecast and whether each was answered:
\* current weather, forecast, air pollution, and current weather again for
\* the UV index
ForecastRequests(current_weather, forecast_5day, air_quality, uv_current) ==
    <<Request("weather", current_weather), Request("forecast", forecast_5day),
      Request("air_pollution", air_quality), Request("weather", uv_current)>>

\* handle_message for a location message, then handle_location
HandleLocation(user, location, fail) ==
    /\ Serving("location", user.id)
    /\ users' = update_location(save_user(users, user), user.id, location)
    /\ UNCHANGED payments
    /\ LET received == <<StatRow(user.id, "message_received"),
                         StatRow(user.id, "location_shared")>>
           processing == Sent(<<>>, Text("processing"), fail)
       IN  \E row \in get_last_payment(payments, user.id) :
             IF row = None \/ row.stars_amount = 0
             THEN /\ outbox' = Sent(processing, Text("no_payment"), fail)
                  /\ result' = LastOk(outbox')
                  /\ usage_stats' = usage_stats \o received
                  /\ fetches' = <<>>
                  /\ NotComposed
                  /\ UNCHANGED error_logs
             ELSE \E answers \in FetchResponses :
                  LET wd == get_comprehensive_forecast(
                                answers.current, answers.forecast, answers.air,
                                location.lat, location.lon)
                  IN  /\ fetches' = ForecastRequests(answers.current, answers.forecast,
                                                         answers.air, answers.uv)
                      /\ IF wd = None
                         THEN /\ outbox' = Sent(processing, Text("weather_error"), fail)
                              /\ result' = LastOk(outbox')
                              /\ usage_stats' = usage_stats \o received
                              /\ error_logs' =
                                    Append(error_logs, ErrorRow(user.id, "weather_api_error"))
                              /\ NotComposed
                         ELSE LET msgs == create_detailed_weather_messages(wd, row.stars_amount)
                              IN  /\ weather_data' = wd
                                  /\ stars_count' = row.stars_amount
                                  /\ messages' = msgs
                                  /\ IF msgs = <<>>
                                     THEN /\ outbox' = Sent(processing,
                                                            Text("compose_error"), fail)
                                          /\ result' = LastOk(outbox')
                                          /\ usage_stats' = usage_stats \o received
                                          /\ error_logs' =
                                                Append(error_logs,
                                                       ErrorRow(user.id, "message_creation_error"))
                                     ELSE LET blocks == SendAll(processing, msgs, fail)
                                          IN  /\ outbox' = deliver(processing, msgs, fail)
                                              /\ result' =
                                                    \A i \in 2..Len(blocks) : blocks[i].ok
                                              /\ usage_stats' =
                                                    usage_stats \o received
                                                      \o <<StatRow(user.id, "forecast_delivered")>>
                                              /\ UNCHANGED error_logs

CleanupOldData_with_payments(k_usage, k_errors) ==
    /\ usage_stats' = SubSeq(usage_stats, k_usage + 1, Len(usage_stats))
    /\ error_logs' = SubSeq(error_logs, k_errors + 1, Len(error_logs))
    /\ payments' = SubSeq(payments, k_usage + 1, Len(payments))
    /\ k_usage + k_errors > 0
    /\ UNCHANGED <<users, update, fetches, outbox, result, now,
                   weather_data, stars_count, messages>>

\* cleanup_old_data: the rows older than the cutoff are the first k inserted
CleanupOldData(k_usage, k_errors) ==
    /\ usage_stats' = SubSeq(usage_stats, k_usage + 1, Len(usage_stats))
    /\ error_logs' = SubSeq(error_logs, k_errors + 1, Len(error_logs))
    /\ k_usage + k_errors > 0
    /\ UNCHANGED <<users, payments, update, fetches, outbox, result, now,
                   weather_data, stars_count, messages>>

-----------------------------------------------------------------------------
(* The bot handling webhook updates over its store *)

\* no helper of the additional block is under study
NoArgs ==
    /\ args = None
    /\ value = None

\* the tables as init_database creates them
InitStore ==
    /\ users = [u \in UserIds |-> None]
    /\ payments = <<>>
    /\ usage_stats = <<>>
    /\ error_logs = <<>>
    /\ update = [kind |-> "none", user_id |-> 0]
    /\ fetches = <<>>
    /\ outbox = <<>>
    /\ result = TRUE
    /\ now = 0
    /\ procs = <<>>
    /\ lock = 0

Init ==
    /\ InitStore
    /\ weather_data = None
    /\ stars_count = 0
    /\ messages = <<>>
    /\ main_description = "none"
    /\ forecast_list = <<>>
    /\ daily_forecasts = <<>>
    /\ day_periods = <<>>
    /\ tier = None
    /\ phase = "serving"
    /\ NoArgs

TextUpdate ==
    \E user \in UserInputs, text \in TextInputs, fail \in OneSendFails :
        HandleText(user, text, fail)

CallbackQueryUpdate ==
    \E user_id \in UserIds, data \in CallbackInputs, fail \in OneSendFails :
        HandleCallbackQuery(user_id, data, fail)

PreCheckoutUpdate ==
    \E query \in PreCheckoutInputs, fail \in OneSendFails :
        HandlePreCheckout(query, fail)

SuccessfulPaymentUpdate ==
    \E user_id \in UserIds, stars \in PaymentStars, fail \in OneSendFails :
        HandleSuccessfulPayment(user_id, stars, fail)

LocationUpdate ==
    \E user \in UserInputs, location \in LocationMessages, fail \in FailInputs :
        HandleLocation(user, location, fail)

Cleanup ==
    \E k_usage \in 0..Len(usage_stats), k_errors \in 0..Len(error_logs) :
        CleanupOldData(k_usage, k_errors)

\* the purchase flow: messages, payments and locations of two users
Next ==
    \/ now < MaxUpdates /\ TextUpdate /\ UNCHANGED idleVars
    \/ now < MaxUpdates /\ SuccessfulPaymentUpdate /\ UNCHANGED idleVars
    \/ now < MaxUpdates /\ LocationUpdate /\ UNCHANGED idleVars

Spec == Init /\ [][Next]_vars

\* every kind of update process_update dispatches, and the store's cleanup
NextDispatch ==
    \/ now < MaxDispatch /\ TextUpdate /\ UNCHANGED idleVars
    \/ now < MaxDispatch /\ CallbackQueryUpdate /\ UNCHANGED idleVars
    \/ now < MaxDispatch /\ PreCheckoutUpdate /\ UNCHANGED idleVars
    \/ now < MaxDispatch /\ SuccessfulPaymentUpdate /\ UNCHANGED idleVars
    \/ now < MaxDispatch /\ LocationUpdate /\ UNCHANGED idleVars
    \/ Cleanup /\ UNCHANGED idleVars

SpecDispatch == Init /\ [][NextDispatch]_vars

-----------------------------------------------------------------------------
(* The composer and the tier resolver applied to one input *)

InitCompose ==
    /\ weather_data \in WeatherInputs
    /\ stars_count \in StarInputs
    /\ messages = <<>>
    /\ main_description = "none"
    /\ tier = None
    /\ forecast_list = <<>>
    /\ daily_forecasts = <<>>
    /\ day_periods = <<>>
    /\ phase = "input"
    /\ InitStore
    /\ NoArgs

Compose ==
    /\ phase = "input"
    /\ messages' = create_detailed_weather_messages(weather_data, stars_count)
    /\ phase' = "composed"
    /\ UNCHANGED <<weather_data, stars_count, tier, forecast_list,
                   daily_forecasts, day_periods, main_description,
                   sysVars, labVars>>

ResolveTier ==
    /\ phase = "input"
    /\ tier' = get_pricing_plan(stars_count)
    /\ phase' = "resolved"
    /\ UNCHANGED <<weather_data, stars_count, messages, forecast_list,
                   daily_forecasts, day_periods, main_description,
                   sysVars, labVars>>

NextCompose == Compose \/ ResolveTier

SpecCompose == InitCompose /\ [][NextCompose]_vars

-----------------------------------------------------------------------------
(* The bucketer applied to one sample list *)

InitBucket ==
    /\ forecast_list \in BucketInputs
    /\ daily_forecasts = <<>>
    /\ day_periods = <<>>
    /\ weather_data = None
    /\ stars_count = 0
    /\ messages = <<>>
    /\ main_description = "none"
    /\ tier = None
    /\ phase = "input"
    /\ InitStore
    /\ NoArgs

Bucket ==
    /\ phase = "input"
    /\ ~ group_raises(forecast_list)
    /\ daily_forecasts' = _group_forecasts_by_day(forecast_list)
    /\ day_periods' = [k \in DOMAIN daily_forecasts' |->
                          _split_day_into_periods(daily_forecasts'[k])]
    /\ phase' = "bucketed"
    /\ UNCHANGED <<forecast_list, weather_data, stars_count, messages, tier,
                   main_description, sysVars, labVars>>

NextBucket == Bucket

SpecBucket == InitBucket /\ [][NextBucket]_vars

-----------------------------------------------------------------------------
(* The per-day renderer applied to one list of day buckets *)

InitDay ==
    /\ daily_forecasts \in DailyInputs
    /\ weather_data \in {[air_quality |-> a] : a \in AirInputs}
    /\ stars_count \in DOMAIN PRICING_PLANS
    /\ day_periods = <<>>
    /\ forecast_list = <<>>
    /\ messages = <<>>
    /\ main_description = "none"
    /\ tier = None
    /\ phase = "input"
    /\ InitStore
    /\ NoArgs

\* the for loop of _create_detailed_daily_forecasts over the buckets
RenderDays ==
    /\ phase = "input"
    /\ day_periods' = [k \in DOMAIN daily_forecasts |->
                          _split_day_into_periods(daily_forecasts[k])]
    /\ messages' = day_loop(0, Slice(DAY_NAMES, PRICING_PLANS[stars_count].days),
                            daily_forecasts, weather_data.air_quality, <<>>)
    /\ phase' = "rendered"
    /\ UNCHANGED <<daily_forecasts, weather_data, stars_count, forecast_list,
                   main_description, tier, sysVars, labVars>>

\* the summary line of the first day's message
Summarise ==
    /\ phase = "input"
    /\ LET periods == _split_day_into_periods(daily_forecasts[1])
       IN  /\ ~ period_raises(periods)
           /\ Populated(periods) # <<>>
           /\ main_description' \in main_description_choices(periods)
           /\ day_periods' = <<periods>>
    /\ phase' = "summarised"
    /\ UNCHANGED <<daily_forecasts, weather_data, stars_count, forecast_list,
                   messages, tier, sysVars, labVars>>

NextDay == RenderDays \/ Summarise

SpecDay == InitDay /\ [][NextDay]_vars

-----------------------------------------------------------------------------
(* The derived quantities and the moon phase applied to one input *)

InitDerived ==
    /\ args \in AirStateInputs \cup ConditionInputs \cup DateInputs
    /\ value = None
    /\ weather_data = None
    /\ stars_count = 0
    /\ messages = <<>>
    /\ main_description = "none"
    /\ forecast_list = <<>>
    /\ daily_forecasts = <<>>
    /\ day_periods = <<>>
    /\ tier = None
    /\ phase = "input"
    /\ InitStore

Derive(name, v) ==
    /\ phase = "input"
    /\ value' = v
    /\ phase' = name
    /\ UNCHANGED <<weather_data, stars_count, messages, main_description,
                   forecast_list, daily_forecasts, day_periods, tier,
                   sysVars, args, procs, lock>>

DewPoint ==
    /\ args \in AirStateInputs
    /\ Derive("dew_point", _calculate_dew_point(args.temp, args.humidity))

HeatIndex ==
    /\ args \in AirStateInputs
    /\ Derive("heat_index", _calculate_heat_index(args.temp, args.humidity))

Recommend ==
    /\ args \in ConditionInputs
    /\ Derive("recommendations",
              _generate_weather_recommendations(args.current, args.air_quality))

MoonPhase ==
    /\ args \in DateInputs
    /\ Derive("moon_phase", get_moon_phase(args.year, args.month, args.day))

NextDerived == DewPoint \/ HeatIndex \/ Recommend \/ MoonPhase

SpecDerived == InitDerived /\ [][NextDerived]_vars

-----------------------------------------------------------------------------
(* Requests of one user writing to the store side by side.  Every call of  *)
(* save_user and save_payment opens its own connection; its first write    *)
(* statement begins a transaction and takes SQLite's write lock, which     *)
(* commit releases.  A statement that finds the lock taken waits in the    *)
(* busy handler and raises 'database is locked' if the connection's        *)
(* timeout passes first.  pending is the database as the connection sees   *)
(* it, with its own uncommitted statements applied.                        *)

never_busy(p) == FALSE

\* another connection holds the write lock
Busy(p) == lock # 0 /\ lock # p

Writer(op, arg) ==
    [op |-> op, arg |-> arg, pc |-> "start", exists |-> FALSE, pending |-> None,
     waited |-> FALSE, ok |-> FALSE, began |-> 0, ended |-> 0]

\* the save_payment calls of near-simultaneous purchases of user 1
PaymentWriters ==
    [1..MaxWriters -> {Writer("save_payment", [user_id |-> 1, stars_amount |-> n]) :
                          n \in {1, 3}}]

\* the save_user calls of near-simultaneous messages of user 1, the profile
\* the same or changed in between
UserWriters ==
    [1..MaxWriters -> {Writer("save_user", [id |-> 1, first_name |-> name]) :
                          name \in {"Ann", "Anna"}}]

\* the store before the requests: empty, with the user's row, or with the
\* row and an earlier payment
StoreInputs ==
    {[users |-> [u \in UserIds |-> None], payments |-> <<>>],
     [users |-> save_user([u \in UserIds |-> None], [id |-> 1, first_name |-> "Ann"]),
      payments |-> <<>>],
     [users |-> [save_user([u \in UserIds |-> None], [id |-> 1, first_name |-> "Ann"])
                    EXCEPT ![1].total_orders = 1, ![1].total_stars_spent = 3],
      payments |-> <<[id |-> 1, user_id |-> 1, stars_amount |-> 3,
                      payment_date |-> 0, weather_delivered |-> FALSE]>>]}

InitWriters ==
    /\ procs \in PaymentWriters \cup UserWriters
    /\ lock = 0
    /\ \E store \in StoreInputs :
          /\ users = store.users
          /\ payments = store.payments
    /\ now = 1
    /\ usage_stats = <<>>
    /\ error_logs = <<>>
    /\ update = [kind |-> "none", user_id |-> 0]
    /\ fetches = <<>>
    /\ outbox = <<>>
    /\ result = TRUE
    /\ weather_data = None
    /\ stars_count = 0
    /\ messages = <<>>
    /\ main_description = "none"
    /\ forecast_list = <<>>
    /\ daily_forecasts = <<>>
    /\ day_periods = <<>>
    /\ tier = None
    /\ phase = "writing"
    /\ NoArgs

writerIdle == <<weather_data, stars_count, messages, main_description,
                forecast_list, daily_forecasts, day_periods, tier, phase,
                usage_stats, error_logs, update, fetches, outbox, result, now,
                args, value>>

\* the calls that have begun, or ended, number this many
Begun == Cardinality({q \in DOMAIN procs : procs[q].began > 0})

Ended == Cardinality({q \in DOMAIN procs : procs[q].ended > 0})

\* the statement of p waits for the write lock
Wait(p) ==
    /\ procs[p].pc # "waiting"
    /\ procs' = [procs EXCEPT ![p].pc = "waiting", ![p].waited = TRUE,
                              ![p].began = IF @ = 0 THEN Begun + 1 ELSE @]
    /\ UNCHANGED <<users, payments, lock>>

\* the statement of p raises and the except clause returns False
Raise(p) ==
    /\ procs' = [procs EXCEPT ![p].pc = "done", ![p].ok = FALSE,
                              ![p].pending = None, ![p].ended = Ended + 1]
    /\ UNCHANGED <<users, payments, lock>>

\* save_user: SELECT user_id FROM users WHERE user_id = ?; fetchone()
SelectUser(p) ==
    /\ procs[p].op = "save_user"
    /\ procs[p].pc = "start"
    /\ procs' = [procs EXCEPT ![p].pc = "selected",
                              ![p].exists = users[procs[p].arg.id] # None,
                              ![p].began = Begun + 1]
    /\ UNCHANGED <<users, payments, lock, writerIdle>>

\* save_user: the UPDATE if the SELECT found a row, else the INSERT, which
\* raises IntegrityError on a user_id (PRIMARY KEY) that has a row by now
WriteUser(p) ==
    /\ procs[p].op = "save_user"
    /\ procs[p].pc \in {"selected", "waiting"}
    /\ IF Busy(p) THEN Wait(p)
       ELSE IF ~ procs[p].exists /\ users[procs[p].arg.id] # None THEN Raise(p)
       ELSE /\ procs' = [procs EXCEPT
                            ![p].pc = "written",
                            ![p].pending = [users |-> save_user(users, procs[p].arg),
                                            payments |-> payments]]
            /\ lock' = p
            /\ UNCHANGED <<users, payments>>
    /\ UNCHANGED writerIdle

\* save_payment: INSERT INTO payments
InsertPayment(p) ==
    /\ procs[p].op = "save_payment"
    /\ procs[p].pc \in {"start", "waiting"}
    /\ IF Busy(p) THEN Wait(p)
       ELSE /\ procs' = [procs EXCEPT
                            ![p].pc = "inserted",
                            ![p].began = IF @ = 0 THEN Begun + 1 ELSE @,
                            ![p].pending =
                                [users |-> users,
                                 payments |-> Append(payments,
                                     payment_row(payments, procs[p].arg.user_id,
                                                 procs[p].arg.stars_amount))]]
            /\ lock' = p
            /\ UNCHANGED <<users, payments>>
    /\ UNCHANGED writerIdle

\* save_payment: UPDATE users SET total_orders = total_orders + 1, ...
UpdateTotals(p) ==
    /\ procs[p].op = "save_payment"
    /\ procs[p].pc = "inserted"
    /\ procs' = [procs EXCEPT
                    ![p].pc = "written",
                    ![p].pending.users = add_order(@, procs[p].arg.user_id,
                                                   procs[p].arg.stars_amount)]
    /\ UNCHANGED <<users, payments, lock, writerIdle>>

\* conn.commit(); return True
Commit(p) ==
    /\ procs[p].pc = "written"
    /\ users' = procs[p].pending.users
    /\ payments' = procs[p].pending.payments
    /\ lock' = IF lock = p THEN 0 ELSE lock
    /\ procs' = [procs EXCEPT ![p].pc = "done", ![p].ok = TRUE,
                              ![p].pending = None, ![p].ended = Ended + 1]
    /\ UNCHANGED writerIdle

\* the timeout of the connection passes while the lock is taken
Timeout(p) ==
    /\ procs[p].pc = "waiting"
    /\ Busy(p)
    /\ Raise(p)
    /\ UNCHANGED writerIdle

NextWriters ==
    \/ \E p \in DOMAIN procs : SelectUser(p)
    \/ \E p \in DOMAIN procs : WriteUser(p)
    \/ \E p \in DOMAIN procs : InsertPayment(p)
    \/ \E p \in DOMAIN procs : UpdateTotals(p)
    \/ \E p \in DOMAIN procs : Commit(p)
    \/ \E p \in DOMAIN procs : Timeout(p)

SpecWriters == InitWriters /\ [][NextWriters]_vars

-----------------------------------------------------------------------------
(* Properties of the tier resolver and of the composer (SpecCompose) *)

Kinds(msgs) == [i \in DOMAIN msgs |-> msgs[i].kind]

HasKind(msgs, kinds) == \E i \in DOMAIN msgs : msgs[i].kind \in kinds

CountKind(msgs, kinds) ==
    Cardinality({i \in DOMAIN msgs : msgs[i].kind \in kinds})

DayKinds == {"day", "day_nodata", "day_error"}

DayBlocks(msgs) == SelectSeq(msgs, LAMBDA m : m.kind \in DayKinds)

Composed == phase = "composed"

\* C1: tier resolution returns, for s = 1..5, a plan of exactly 2,3,4,5,6
\* days, and for every other integer no plan at all (never a default plan).
C1_TierResolution ==
    phase = "resolved" =>
        IF stars_count \in 1..5
        THEN tier # None /\ tier.days = <<2, 3, 4, 5, 6>>[stars_count]
        ELSE tier = None

C1_Witness ==
    phase = "resolved" /\ stars_count = 6
        /\ tier = None

\* C2: a star count outside 1..5 handed to the composer is surfaced as a
\* failure (the empty result); no forecast is rendered for it with a
\* substituted day count.
C2_UnknownTierSurfaced ==
    Composed /\ stars_count \notin 1..5 => messages = <<>>

\* a caught exception inside one of the sub-blocks of this composition
SubBlockRaised ==
    /\ ~ compose_raises(weather_data)
    /\ \/ header_raises(weather_data.current, weather_data.location_info,
                        Get(weather_data, "air_quality"))
       \/ daily_raises(weather_data.forecast)
       \/ HasKind(messages, {"day_error"})
       \/ stars_count >= 3 /\ additional_raises(weather_data)

\* C3: an exception while composing any sub-block (header, a per-day block,
\* the daily list, the additional-info block) makes the composer return the
\* empty list: never a partial sequence, never an error placeholder block.
C3_SubBlockFailureEmpties ==
    Composed /\ (compose_raises(weather_data) \/ SubBlockRaised) =>
        /\ messages = <<>>
        /\ ~ HasKind(messages, {"header_error", "day_error"})

WellFormedSample(f) == {"dt", "temp", "description"} \subseteq DOMAIN f

WellFormed(wd) ==
    /\ {"current", "forecast", "location_info"} \subseteq DOMAIN wd
    /\ {"main", "wind", "sys"} \subseteq DOMAIN wd.current
    /\ {"city", "country"} \subseteq DOMAIN wd.location_info
    /\ "list" \in DOMAIN wd.forecast
    /\ \A i \in DOMAIN wd.forecast.list : WellFormedSample(wd.forecast.list[i])
    /\ LET a == Get(wd, "air_quality")
       IN  a # None => {"aqi", "pm2_5"} \subseteq DOMAIN a

DistinctDates(list) == {DateOf(list[i].dt) : i \in DOMAIN list}

\* C5: for s in 1..5 and a well-formed payload covering at least s+1
\* calendar days the composer returns 1 header + (s+1) day blocks +
\* 1 additional-info block iff s >= 3 + 1 footer (7 blocks for 3 stars,
\* 4 blocks for 1 star).
C5_BlockCount ==
    (/\ Composed
     /\ stars_count \in 1..5
     /\ WellFormed(weather_data)
     /\ Cardinality(DistinctDates(weather_data.forecast.list)) >= stars_count + 1)
    => /\ Len(messages) = 1 + (stars_count + 1)
                            + (IF stars_count >= 3 THEN 1 ELSE 0) + 1
       /\ CountKind(messages, {"header"}) = 1
       /\ CountKind(messages, {"day"}) = stars_count + 1
       /\ CountKind(messages, {"additional"}) = IF stars_count >= 3 THEN 1 ELSE 0
       /\ CountKind(messages, {"final"}) = 1
       /\ stars_count = 3 => Len(messages) = 7
       /\ stars_count = 1 => Len(messages) = 4

C5_Witness ==
    /\ Composed
    /\ stars_count = 3
    /\ WellFormed(weather_data)
    /\ Cardinality(DistinctDates(weather_data.forecast.list)) = 5
    /\ Len(messages) = 7

\* C6: in every non-empty result the additional-info block is present if
\* and only if the star count is >= 3.
C6_AdditionalIffThreeStars ==
    Composed /\ messages # <<>> =>
        (HasKind(messages, {"additional"}) <=> stars_count >= 3)

\* C7: the number of per-day blocks is min(tier day count, number of day
\* buckets), and the k-th per-day block renders the k-th bucket under the
\* k-th day name.
C7_DayBlocks ==
    /\ (/\ Composed
        /\ stars_count \in 1..5
        /\ (compose_raises(weather_data) \/ daily_raises(weather_data.forecast)))
       => DayBlocks(messages) = <<>>
    /\ (/\ Composed
        /\ stars_count \in 1..5
        /\ ~ compose_raises(weather_data)
        /\ ~ daily_raises(weather_data.forecast))
       =>
       LET buckets == _group_forecasts_by_day(weather_data.forecast.list)
           days == DayBlocks(messages)
           n == Min(PRICING_PLANS[stars_count].days, Len(buckets))
       IN  /\ Len(days) = n
           /\ \A k \in 1..n :
                 LET periods == _split_day_into_periods(buckets[k])
                 IN  /\ days[k].day_name = DAY_NAMES[k]
                     /\ days[k].kind = "day" => days[k].periods = periods
                     /\ days[k].kind = "day_nodata" => Populated(periods) = <<>>
                     /\ days[k].kind = "day_error" =>
                           \/ period_raises(periods)
                           \/ aqi_raises(Get(weather_data, "air_quality"))

C7_Witness ==
    /\ Composed
    /\ stars_count = 4
    /\ ~ compose_raises(weather_data)
    /\ ~ daily_raises(weather_data.forecast)
    /\ Len(_group_forecasts_by_day(weather_data.forecast.list)) = 3
    /\ Len(DayBlocks(messages)) = 3
    /\ DayBlocks(messages)[2].kind = "day"
    /\ DayBlocks(messages)[1] # DayBlocks(messages)[3]

KindRank(kind) ==
    IF kind \in {"header", "header_error"} THEN 0
    ELSE IF kind \in DayKinds THEN 1
    ELSE IF kind = "additional" THEN 2
    ELSE 3

\* C8: in every non-empty result the header is first, then the per-day
\* blocks in day order, then the additional-info block if present, and the
\* footer is last.
C8_BlockOrder ==
    Composed /\ messages # <<>> =>
        /\ KindRank(messages[1].kind) = 0
        /\ messages[Len(messages)].kind = "final"
        /\ CountKind(messages, {"header", "header_error"}) = 1
        /\ CountKind(messages, {"final"}) = 1
        /\ CountKind(messages, {"additional"}) <= 1
        /\ \A i, j \in DOMAIN messages :
              i < j => KindRank(messages[i].kind) <= KindRank(messages[j].kind)
        /\ \A k \in DOMAIN DayBlocks(messages) :
              DayBlocks(messages)[k].day_name = DAY_NAMES[k]

C8_Witness ==
    /\ Composed
    /\ stars_count = 5
    /\ Kinds(messages) = <<"header", "day", "day", "day", "day", "day", "day",
                           "additional", "final">>

-----------------------------------------------------------------------------
(* Properties of the bucketer (SpecBucket) *)

Bucketed == phase = "bucketed"

RECURSIVE FirstSeenDates(_, _)
FirstSeenDates(list, seen) ==
    IF list = <<>> THEN seen
    ELSE LET d == DateOf(Head(list).dt)
         IN  FirstSeenDates(Tail(list),
                 IF \E i \in DOMAIN seen : seen[i] = d THEN seen
                 ELSE Append(seen, d))

BucketDates(daily) == [k \in DOMAIN daily |-> DateOf(daily[k][1].dt)]

OneBucketPerDate(list, daily) ==
    /\ BucketDates(daily) = FirstSeenDates(list, <<>>)
    /\ \A j, k \in DOMAIN daily :
          j # k => DistinctDates(daily[j]) \cap DistinctDates(daily[k]) = {}

\* equal calendar dates are adjacent, as in a list ordered by timestamp
DatesContiguous(list) ==
    \A i, j \in DOMAIN list :
        i < j /\ DateOf(list[i].dt) = DateOf(list[j].dt) =>
            \A m \in i..j : DateOf(list[m].dt) = DateOf(list[i].dt)

Chronological(list) ==
    \A i, j \in DOMAIN list : i < j => list[i].dt <= list[j].dt

\* C9 as claimed: for any input list, exactly one bucket per distinct
\* calendar date, in first-seen order, and no date in two buckets.
C9_OneBucketPerDateAnyInput ==
    Bucketed => OneBucketPerDate(forecast_list, daily_forecasts)

\* C9 as amended: the buckets are the maximal runs of consecutive samples of
\* one date (their concatenation is the input), so for an input whose equal
\* dates are adjacent -- any chronologically ordered list -- there is exactly
\* one bucket per distinct date, in first-seen order.
C9_OneBucketPerDateChronological ==
    Bucketed =>
        /\ Concat(daily_forecasts) = forecast_list
        /\ \A k \in DOMAIN daily_forecasts :
              /\ daily_forecasts[k] # <<>>
              /\ Cardinality(DistinctDates(daily_forecasts[k])) = 1
              /\ k > 1 => BucketDates(daily_forecasts)[k - 1]
                            # BucketDates(daily_forecasts)[k]
        /\ Chronological(forecast_list) => DatesContiguous(forecast_list)
        /\ DatesContiguous(forecast_list) =>
              OneBucketPerDate(forecast_list, daily_forecasts)

C9_Witness ==
    /\ Bucketed
    /\ Chronological(forecast_list)
    /\ Len(forecast_list) = 3
    /\ Len(daily_forecasts) = 2
    /\ Len(daily_forecasts[1]) = 2

\* the four windows as the claim states them: [lo, lo + 6)
WindowLo == [night |-> 0, morning |-> 6, day |-> 12, evening |-> 18]

InWindow(hour, w) == WindowLo[w] <= hour /\ hour < WindowLo[w] + 6

\* C10: within a day bucket each of the four windows holds at most one
\* sample; when populated it is the first sample in input order whose hour
\* falls in the window (later ones never replace it); every hour 0..23 maps
\* to exactly one window.
C10_FirstSampleWins ==
    /\ \A hour \in 0..(HoursPerDay - 1) :
          /\ Cardinality({w \in DOMAIN WindowLo : InWindow(hour, w)}) = 1
          /\ InWindow(hour, period_of(hour))
    /\ Bucketed =>
          \A k \in DOMAIN daily_forecasts :
              \A w \in DOMAIN WindowLo :
                  LET day == daily_forecasts[k]
                      hits == {i \in DOMAIN day : InWindow(HourOf(day[i].dt), w)}
                  IN  IF hits = {} THEN day_periods[k][w] = None
                      ELSE day_periods[k][w]
                             = day[CHOOSE i \in hits : \A j \in hits : i <= j]

C10_Witness ==
    /\ Bucketed
    /\ \E k \in DOMAIN daily_forecasts :
          /\ Len(daily_forecasts[k]) = 3
          /\ HourOf(daily_forecasts[k][1].dt) = 17
          /\ HourOf(daily_forecasts[k][2].dt) = 12
          /\ HourOf(daily_forecasts[k][3].dt) = 18
          /\ day_periods[k]["day"] = daily_forecasts[k][1]
          /\ day_periods[k]["evening"] = daily_forecasts[k][3]
          /\ day_periods[k]["night"] = None

\* the earliest timestamp among the samples of the list that fall on date d
\* in window w
EarliestIn(list, d, w) ==
    LET hits == {i \in DOMAIN list :
                    DateOf(list[i].dt) = d /\ InWindow(HourOf(list[i].dt), w)}
    IN  IF hits = {} THEN None
        ELSE list[CHOOSE i \in hits : \A j \in hits : list[i].dt <= list[j].dt]

\* C11: whatever the order of the input samples, the sample kept for each
\* (day, window) is the earliest-timestamped sample of the input that falls
\* on that day in that window, so every permutation of a list buckets alike.
C11_EarliestKept ==
    Bucketed =>
        \A k \in DOMAIN daily_forecasts :
            \A w \in DOMAIN WindowLo :
                day_periods[k][w]
                    = EarliestIn(forecast_list, BucketDates(daily_forecasts)[k], w)

-----------------------------------------------------------------------------
(* Properties of the per-day renderer (SpecDay) *)

Rendered == phase = "rendered"

\* the days rendered: the tier's day count capped by the number of buckets
DaysRendered == Min(PRICING_PLANS[stars_count].days, Len(daily_forecasts))

NoData(k) ==
    /\ ~ period_raises(day_periods[k])
    /\ Populated(day_periods[k]) = <<>>

FirstMostFrequent(periods) ==
    LET descriptions == descriptions_of(periods)
        best == CHOOSE i \in DOMAIN descriptions :
                    /\ \A j \in DOMAIN descriptions :
                          count_of(descriptions, descriptions[j])
                              <= count_of(descriptions, descriptions[i])
                    /\ \A j \in 1..(i - 1) :
                          count_of(descriptions, descriptions[j])
                              < count_of(descriptions, descriptions[i])
    IN  Title(descriptions[best])

\* C13: the summary description of a day is the most frequent description
\* of its populated windows and, among equally frequent ones, the one met
\* first in window order; the same input always gives the same summary.
C13_DominantDescription ==
    phase = "summarised" =>
        main_description = FirstMostFrequent(day_periods[1])

-----------------------------------------------------------------------------
(* Properties of the payment / location flow (Spec) *)

Delivered(i, user_id) ==
    usage_stats[i] = StatRow(user_id, "forecast_delivered")

Purchased(i, user_id) ==
    usage_stats[i] = StatRow(user_id, "payment_successful")

\* the text kinds of the Bot API calls of the update handled last
OutKinds == [i \in DOMAIN outbox |-> outbox[i].msg.kind]

\* the payment rows of a user, in insertion order
PaymentsOf(user_id) == SelectSeq(payments, LAMBDA row : row.user_id = user_id)

OutKindsAsBlocks == [i \in DOMAIN outbox |-> outbox[i].msg]

LocationHandled == update.kind = "location"

\* create_detailed_weather_messages was called for the update handled last
ComposerCalled == weather_data # None

\* C14: a location message of a user with no recorded payment is answered
\* by the processing notice and the 'pay first' message and nothing else: no
\* provider request, no composition, no forecast block.
C14_NoPaymentPayFirst ==
    LocationHandled /\ PaymentsOf(update.user_id) = <<>> =>
        /\ OutKinds = <<"processing", "no_payment">>
        /\ fetches = <<>>
        /\ ~ ComposerCalled
        /\ messages = <<>>
        /\ ~ HasKind(OutKindsAsBlocks, {"header", "header_error", "final"} \cup DayKinds)

C14_Witness ==
    /\ LocationHandled
    /\ PaymentsOf(update.user_id) = <<>>
    /\ payments # <<>>
    /\ OutKinds = <<"processing", "no_payment">>
    /\ fetches = <<>>

FetchMade == LocationHandled /\ fetches # <<>>

Endpoints == [i \in DOMAIN fetches |-> fetches[i].endpoint]

\* the first answer of each endpoint is the one the fetch uses
FirstAnswered(endpoint) ==
    LET i == CHOOSE i \in DOMAIN fetches :
                 /\ fetches[i].endpoint = endpoint
                 /\ \A j \in 1..(i - 1) : fetches[j].endpoint # endpoint
    IN  fetches[i].answered

ForecastBlockSent ==
    HasKind(OutKindsAsBlocks, {"header", "header_error", "additional", "final"}
                                 \cup DayKinds)

\* C17: the fetch reports total failure whenever the forecast payload or the
\* air-quality payload is absent; it never returns data with one missing.
C17_AbsentPayloadFailsFetch ==
    FetchMade /\ (~ FirstAnswered("forecast") \/ ~ FirstAnswered("air_pollution")) =>
        /\ ~ ComposerCalled
        /\ OutKinds = <<"processing", "weather_error">>

\* the fetch failed: the current weather or the forecast is missing
FetchFailed ==
    FetchMade /\ (~ FirstAnswered("weather") \/ ~ FirstAnswered("forecast"))

FailureSurfaced ==
    /\ OutKinds = <<"processing", "weather_error">>
    /\ ~ ComposerCalled
    /\ messages = <<>>
    /\ ~ ForecastBlockSent
    /\ ~ HasKind(OutKindsAsBlocks, {"forecast_ready"})
    /\ error_logs # <<>>
    /\ error_logs[Len(error_logs)] = ErrorRow(update.user_id, "weather_api_error")

\* C18 as claimed: on fetch failure the generic weather-error message is
\* sent, nothing is composed or delivered, and each provider endpoint is
\* requested at most once per location request.
C18_FailureOneRequestPerEndpoint ==
    FetchFailed =>
        /\ FailureSurfaced
        /\ \A i, j \in DOMAIN fetches :
              i # j => fetches[i].endpoint # fetches[j].endpoint

\* C18 as amended: on fetch failure the generic weather-error message is
\* sent and nothing is composed or delivered; the fetch makes the same four
\* requests whatever their answers (forecast and air pollution once, current
\* weather twice, the second time for the UV index) and an answer to the
\* second current-weather request never stands in for a failed first one.
C18_FailureSurfacedNoRetry ==
    /\ FetchFailed => FailureSurfaced
    /\ FetchMade =>
          /\ Endpoints = <<"weather", "forecast", "air_pollution", "weather">>
          /\ ~ FetchFailed => ComposerCalled

C18_Witness ==
    /\ FetchFailed
    /\ ~ fetches[1].answered
    /\ fetches[2].answered
    /\ fetches[4].answered
    /\ OutKinds = <<"processing", "weather_error">>

\* C19: when composition returns blocks, every block is sent exactly once
\* in list order between the processing notice and the 'forecast ready'
\* message, a failed send not stopping the later ones; when it returns none,
\* or is not reached, no block is sent; handle_location returns True iff
\* every block send succeeded.
C19_AllBlocksAttempted ==
    LocationHandled =>
        IF ComposerCalled /\ messages # <<>>
        THEN /\ Len(outbox) = Len(messages) + 2
             /\ outbox[1].msg = Text("processing")
             /\ \A i \in DOMAIN messages : outbox[i + 1].msg = messages[i]
             /\ outbox[Len(outbox)].msg = Text("forecast_ready")
             /\ result = (\A i \in DOMAIN messages : outbox[i + 1].ok)
        ELSE ~ ForecastBlockSent

C19_Witness ==
    /\ LocationHandled
    /\ ComposerCalled
    /\ Len(messages) >= 4
    /\ Len(outbox) = Len(messages) + 2
    /\ outbox[1].ok
    /\ ~ outbox[2].ok
    /\ outbox[3].ok
    /\ result = FALSE

\* C4: an entitlement is consumed by the location that used it: every
\* forecast delivered to a user is preceded by a completed purchase of that
\* user made after the user's previous forecast, so a second location with
\* no new payment in between produces no forecast.
C4_EntitlementConsumed ==
    \A user_id \in UserIds :
        \A i \in DOMAIN usage_stats :
            Delivered(i, user_id) =>
                \E j \in 1..(i - 1) :
                    /\ Purchased(j, user_id)
                    /\ \A k \in (j + 1)..(i - 1) : ~ Delivered(k, user_id)

-----------------------------------------------------------------------------
(* Properties of the dispatch of every kind of update (SpecDispatch) *)

\* C15: the composer is reached only from a location message of a user who
\* has a payment row: no text command, callback query, pre-checkout query
\* or successful-payment update calls create_detailed_weather_messages.
C15_ComposerOnlyAfterPayment ==
    /\ ComposerCalled =>
          /\ LocationHandled
          /\ PaymentsOf(update.user_id) # <<>>
    /\ update.kind \in {"text", "callback_query", "pre_checkout_query",
                         "successful_payment"} =>
          /\ ~ ComposerCalled
          /\ messages = <<>>
          /\ ~ ForecastBlockSent

C15_Witness ==
    /\ ComposerCalled
    /\ LocationHandled
    /\ PaymentsOf(update.user_id) # <<>>
    /\ messages # <<>>
    /\ ForecastBlockSent

\* the step handles a successful-payment update to its end (the handler
\* raises, before it writes anything, for an amount that has no plan)
PaymentHandled ==
    /\ now' = now + 1
    /\ update'.kind = "successful_payment"
    /\ outbox' # <<>>

-----------------------------------------------------------------------------
(* Properties of the payment and location handlers (Spec) *)

UnknownTierPaid ==
    /\ now' = now + 1
    /\ update'.kind = "successful_payment"
    /\ update'.total_amount \notin DOMAIN PRICING_PLANS

\* C27: a successful-payment update whose star amount is no key of the
\* pricing table fails before anything is persisted: no payment row is
\* inserted, no user row or total changes, nothing is logged, no message
\* asking for the location is sent and process_update answers False; the
\* payment a later location of that user finds is the one it found before.
C27_UnknownTierPersistsNothing ==
    [][UnknownTierPaid =>
          /\ payments' = payments
          /\ users' = users
          /\ usage_stats' = usage_stats
          /\ error_logs' = error_logs
          /\ outbox' = <<>>
          /\ result' = FALSE
          /\ get_last_payment(payments', update'.user_id)
                = get_last_payment(payments, update'.user_id)]_vars

C27_Witness ==
    /\ update.kind = "successful_payment"
    /\ update.total_amount = MaxStars
    /\ result = FALSE
    /\ outbox = <<>>
    /\ users[update.user_id] # None
    /\ users[update.user_id].total_orders = 1
    /\ Len(PaymentsOf(update.user_id)) = 1
    /\ Len(usage_stats) = 2

RECURSIVE StarsOf(_)
StarsOf(rows) ==
    IF rows = <<>> THEN 0 ELSE Head(rows).stars_amount + StarsOf(Tail(rows))

\* C28: every user row's running totals agree with the payments table:
\* total_orders is the number of the user's payment rows and
\* total_stars_spent is the sum of their star amounts, after any sequence
\* of updates, a payment handled before the user's row exists included.
C28_TotalsMatchPayments ==
    \A u \in UserIds :
        users[u] # None =>
            /\ users[u].total_orders = Len(PaymentsOf(u))
            /\ users[u].total_stars_spent = StarsOf(PaymentsOf(u))

Delivering == ComposerCalled /\ messages # <<>>

\* C30: within one location request the processing notice is sent first,
\* followed by exactly one of: the 'pay first' message, the weather-error
\* message, the composition-error message, or the composed blocks in order
\* and then 'forecast ready'.  'Forecast ready' is sent and
\* forecast_delivered is logged exactly when the composer returned a
\* non-empty list, whether or not a block send failed.
C30_LocationOutcome ==
    LocationHandled =>
        /\ outbox[1].msg = Text("processing")
        /\ IF Delivering
           THEN OutKindsAsBlocks
                    = <<Text("processing")>> \o messages \o <<Text("forecast_ready")>>
           ELSE \E kind \in {"no_payment", "weather_error", "compose_error"} :
                    OutKindsAsBlocks = <<Text("processing"), Text(kind)>>
        /\ Delivering <=> (\E i \in DOMAIN outbox : outbox[i].msg = Text("forecast_ready"))
        /\ Delivering <=> Delivered(Len(usage_stats), update.user_id)

C30_Witness ==
    /\ LocationHandled
    /\ Delivering
    /\ Len(outbox) = Len(messages) + 2
    /\ ~ outbox[2].ok
    /\ outbox[Len(outbox)].msg = Text("forecast_ready")
    /\ outbox[Len(outbox)].ok
    /\ Delivered(Len(usage_stats), update.user_id)
    /\ result = FALSE

-----------------------------------------------------------------------------
(* Properties of the pre-checkout handler (SpecDispatch) *)

PreCheckoutErrors ==
    {"Invalid currency", "Invalid amount", "Invalid order", "Validation error"}

\* the currency is XTR, the amount is an integer in 1..5 and the payload
\* starts with 'weather_'
Approvable(query) ==
    /\ "currency" \in DOMAIN query
    /\ query.currency = [kind |-> "XTR"]
    /\ "total_amount" \in DOMAIN query
    /\ "int" \in DOMAIN query.total_amount
    /\ query.total_amount.int \in 1..5
    /\ "invoice_payload" \in DOMAIN query
    /\ "weather_prefix" \in DOMAIN query.invoice_payload
    /\ query.invoice_payload.weather_prefix

\* C29: every pre-checkout query is answered exactly once; the answer
\* approves it iff its currency is XTR, its amount is an integer in 1..5 and
\* its payload starts with 'weather_', and declines it with an error message
\* otherwise, so no amount outside 1..5 is ever approved.
C29_PreCheckoutAnswer ==
    update.kind = "pre_checkout_query" =>
        /\ Len(outbox) = 1
        /\ outbox[1].msg.kind = "pre_checkout_answer"
        /\ outbox[1].msg.ok <=> Approvable(update.query)
        /\ ~ outbox[1].msg.ok => outbox[1].msg.error_message \in PreCheckoutErrors
        /\ outbox[1].msg.ok => update.query.total_amount.int \in 1..5

C29_Witness ==
    /\ update.kind = "pre_checkout_query"
    /\ Get(update.query, "currency") = [kind |-> "XTR"]
    /\ Get(update.query, "total_amount") = [int |-> MaxStars]
    /\ Len(outbox) = 1
    /\ ~ outbox[1].msg.ok
    /\ outbox[1].msg.error_message = "Invalid amount"
    /\ payments # <<>>

-----------------------------------------------------------------------------
(* Properties of the derived quantities and of the moon phase (SpecDerived) *)

\* the eight phases and their bins of the phase fraction, in millionths:
\* [lo, hi), the new moon's bin wrapping around 1
MoonBins ==
    <<[phase |-> "new_moon", lo |-> 937500, hi |-> 62500],
      [phase |-> "waxing_crescent", lo |-> 62500, hi |-> 187500],
      [phase |-> "first_quarter", lo |-> 187500, hi |-> 312500],
      [phase |-> "waxing_gibbous", lo |-> 312500, hi |-> 437500],
      [phase |-> "full_moon", lo |-> 437500, hi |-> 562500],
      [phase |-> "waning_gibbous", lo |-> 562500, hi |-> 687500],
      [phase |-> "last_quarter", lo |-> 687500, hi |-> 812500],
      [phase |-> "waning_crescent", lo |-> 812500, hi |-> 937500]>>

InBin(fraction, bin) ==
    IF bin.lo < bin.hi
    THEN bin.lo <= fraction /\ fraction < bin.hi
    ELSE bin.lo <= fraction \/ fraction < bin.hi

\* C23: the moon-phase classification is total: for every calendar date the
\* phase fraction lies in [0, 1), exactly one of the eight bins holds it,
\* each bin starts where the previous one ends, and the phase returned is
\* that bin's phase, never 'unknown'.
C23_MoonPhaseTotal ==
    phase = "moon_phase" =>
        LET fraction == moon_fraction(args.year, args.month, args.day)
        IN  /\ 0 <= fraction /\ fraction < 1000000
            /\ Cardinality({k \in DOMAIN MoonBins : InBin(fraction, MoonBins[k])}) = 1
            /\ \A k \in DOMAIN MoonBins :
                   MoonBins[k].hi = MoonBins[(k % Len(MoonBins)) + 1].lo
            /\ \E k \in DOMAIN MoonBins :
                   /\ InBin(fraction, MoonBins[k])
                   /\ value = [phase |-> MoonBins[k].phase]
            /\ value.phase # "unknown"

C23_Witness ==
    /\ phase = "moon_phase"
    /\ args.year = 2024
    /\ moon_fraction(args.year, args.month, args.day) >= 937500
    /\ value.phase = "new_moon"

CountOf(lines, group) == Cardinality({i \in DOMAIN lines : lines[i] \in group})

\* the lines each check may append
CheckLines ==
    {{"frostbite", "warm_clothes", "hot"}, {"high_humidity", "low_humidity"},
     {"strong_wind"}, {"wear_mask", "limit_activity"}}

NoCheckFires(current, air_quality) ==
    /\ current.main.temp >= 10 /\ current.main.temp <= 30
    /\ current.main.humidity >= 30 /\ current.main.humidity <= 80
    /\ current.wind.speed <= 10
    /\ air_quality = None \/ air_quality.aqi < 3

\* C24: the recommendations hold at most one line per check (temperature,
\* humidity, wind speed, AQI), hence at most four lines; they are exactly
\* the single 'conditions favourable' line iff no check fires, and they are
\* never empty.
C24_Recommendations ==
    phase = "recommendations" =>
        /\ value # <<>>
        /\ Len(value) <= 4
        /\ \A group \in CheckLines : CountOf(value, group) <= 1
        /\ \A i \in DOMAIN value :
               value[i] = "favourable" \/ value[i] \in UNION CheckLines
        /\ (\E i \in DOMAIN value : value[i] = "favourable")
               => value = <<"favourable">>
        /\ value = <<"favourable">> <=> NoCheckFires(args.current, args.air_quality)

C24_Witness ==
    /\ phase = "recommendations"
    /\ value = <<"frostbite", "high_humidity", "strong_wind", "wear_mask">>

\* C25: for a fixed temperature the dew point is non-decreasing in the
\* humidity over 0..100 %, the humidity 0 of the fallback value included.
C25_DewPointMonotone ==
    phase = "dew_point" =>
        \A humidity \in args.humidity..100 :
            value <= _calculate_dew_point(args.temp, humidity)

\* C26: the heat index is never below the temperature; below 27 degrees it
\* is the temperature, and from 27 degrees on it is non-decreasing in the
\* humidity over 0..100 %.
C26_HeatIndex ==
    phase = "heat_index" =>
        /\ value >= 1000 * args.temp
        /\ args.temp < 27 => value = 1000 * args.temp
        /\ args.temp >= 27 =>
               \A humidity \in args.humidity..100 :
                   value <= _calculate_heat_index(args.temp, humidity)

C26_Witness ==
    /\ phase = "heat_index"
    /\ args = [temp |-> 30, humidity |-> 50]
    /\ value = 32500

-----------------------------------------------------------------------------
(* Properties of requests writing side by side (SpecWriters) *)

Saving(op) == procs # <<>> /\ \A p \in DOMAIN procs : procs[p].op = op

\* the calls that returned True
Saved == {p \in DOMAIN procs : procs[p].pc = "done" /\ procs[p].ok}

Quiescent == \A p \in DOMAIN procs : procs[p].pc = "done"

\* some call found the write lock taken by a call under way
Overlapped == \E p \in DOMAIN procs : procs[p].waited

RECURSIVE StarsSaved(_)
StarsSaved(ps) ==
    IF ps = {} THEN 0
    ELSE LET p == CHOOSE q \in ps : TRUE
         IN  procs[p].arg.stars_amount + StarsSaved(ps \ {p})

\* the payment rows the calls under study inserted
RowsSaved == SelectSeq(PaymentsOf(1), LAMBDA row : row.payment_date = now)

Latest(p) == \A q \in DOMAIN procs : procs[q].began <= procs[p].began

\* C22: whatever the interleaving of save_user calls, two first messages of
\* a new user included, no second row is created for a user id that has
\* one, and once the messages are handled the user's row is present with
\* the profile of the latest message.
C22_OneRowLatestProfile ==
    Saving("save_user") =>
        /\ \A p \in Saved :
               procs[p].exists \/ \A q \in Saved \ {p} : procs[q].exists
        /\ Quiescent =>
               \A p \in DOMAIN procs :
                   Latest(p) =>
                       /\ users[1] # None
                       /\ users[1].first_name = procs[p].arg.first_name

====
